---- MODULE Spec2Model ----
(***************************************************************************)
(* LibrePods (linux-rust) UI shell: the iced daemon of ui/window.rs.       *)
(*                                                                         *)
(* The model covers App::new, App::update and wait_for_message together    *)
(* with the three collaborators update talks to: the producer end of the   *)
(* ui_rx channel, the iced runtime that runs the returned Task values, and *)
(* the windowing toolkit that opens and closes windows.                    *)
(***************************************************************************)
EXTENDS Integers, Sequences, FiniteSets, TLC

\* ------------------------------------------------------------------ bounds
\* Number of events the producer sends before it stops.
MaxEvents == 2

\* Device identifiers carried by the events.
Macs == {"AA:01", "BB:02"}

\* ------------------------------------------------------------- vocabulary
\* Option<window::Id>::None
NoWindow == 0
\* window::Id values: one per call to window::open (startup or OpenWindow).
WindowIds == 1..(MaxEvents + 1)

NoMac == ""

\* ui/messages.rs: enum UIMessage
UIMessage ==
    [type : {"OpenWindow", "NoOp"}, mac : {NoMac}]
      \cup [type : {"DeviceConnected", "DeviceDisconnected", "AACPUIEvent"}, mac : Macs]

NoOp == [type |-> "NoOp", mac |-> NoMac]

\* The devices whose events the producer sends.
ProducerMacs == {"AA:01"}

Produced == {e \in UIMessage : e.mac \in ProducerMacs \cup {NoMac}}

\* window::icon::from_file("../../assets/icon.png").ok()
IconLoad == {"Some", "None"}

\* window::Settings as built at lines 85-87 and 197-199
WindowSettings(icon) == [min_size |-> <<400, 300>>, icon |-> icon]

\* ------------------------------------------------------------------ tasks
\* A Task<Message> is described by what the runtime will do when it runs it:
\* how many wait_for_message futures it spawns, which windows it asks the
\* toolkit to open, which windows it asks the toolkit to focus.
TaskNone == [wait |-> 0, open |-> {}, focus |-> {}]

\* Task::perform(wait_for_message(ui_rx), |msg| msg)
WaitTask == [wait |-> 1, open |-> {}, focus |-> {}]

\* window::open(settings) -> (id, task); task.map(Message::WindowOpened)
OpenTask(id, settings) ==
    [wait |-> 0, open |-> {[id |-> id, settings |-> settings]}, focus |-> {}]

\* window::gain_focus(id)
FocusTask(id) == [wait |-> 0, open |-> {}, focus |-> {id}]

\* Task::batch(vec![a, b])
TaskBatch(a, b) ==
    [wait |-> a.wait + b.wait, open |-> a.open \cup b.open, focus |-> a.focus \cup b.focus]

\* ------------------------------------------------------------------ state
VARIABLES
    window,             \* App.window : Option<window::Id>
    connected_devices,  \* App.bluetooth_state.connected_devices : Vec<String>
    chan,               \* events sent on the channel and not yet received
    tx_alive,           \* the producer (sender half) still exists
    lockers,            \* wait_for_message futures suspended at ui_rx.lock().await
    holder,             \* a wait_for_message future holds the guard, suspended at rx.recv().await
    ui_msgs,            \* results of wait_for_message on their way to update
    next_id,            \* next window::Id the toolkit hands out
    requested,          \* window::open requests the toolkit has not carried out yet
    live,               \* windows that exist on screen
    win_msgs,           \* WindowOpened / WindowClosed messages on their way to update
    sent,               \* history: every event the producer sent, in order
    handled,            \* history: every event of the queue update has handled, in order
    icon_file,          \* what loading the icon file yields (the file is there or not)
    last,               \* history: the last call of new/update and the task it returned
    start_minimized,    \* the flag App::new was called with
    selected_tab,       \* App.selected_tab : Tab
    devices_file,       \* content of the devices file view reads on every render
    view_out,           \* what the last call of view rendered
    tray,               \* the fields of MyTray
    tray_out,           \* the last call on the tray and what it produced
    menu_shown,         \* the menu the tray host displays (last result of menu)
    selected_theme,     \* App.selected_theme : MyTheme
    settings_file,      \* the app settings file at get_app_settings_path()
    pref_out,           \* the last preference operation and the themes it involved
    font,               \* what FontRef::try_from_slice makes of the embedded font
    icon_in,            \* the arguments of a call of generate_icon in progress
    icon_out            \* the Icon the call returned, with its local x

vars == <<window, connected_devices, chan, tx_alive, lockers, holder, ui_msgs,
          next_id, requested, live, win_msgs, icon_file, sent, handled, last,
          start_minimized, selected_tab, devices_file, view_out, tray, tray_out,
          menu_shown, selected_theme, settings_file, pref_out, font, icon_in,
          icon_out>>

appVars == <<window, connected_devices, start_minimized>>
bridgeVars == <<chan, tx_alive, lockers, holder, ui_msgs>>
toolkitVars == <<next_id, requested, live, win_msgs, icon_file>>
historyVars == <<sent, handled, last>>
navVars == <<selected_tab, devices_file, view_out>>
trayVars == <<tray, tray_out, menu_shown>>
prefVars == <<selected_theme, settings_file, pref_out>>
iconVars == <<font, icon_in, icon_out>>

\* The fields of App that update reads and writes.
Self == [window |-> window, connected_devices |-> connected_devices]

Contains(seq, x) == \E i \in 1..Len(seq) : seq[i] = x

\* ---------------------------------------------------------------- App::new
\* Variant of App::new that asks for the window but keeps window = None.
AppNew_HandleNotStored(minimized, id, icon) ==
    LET open_task == IF minimized THEN TaskNone
                     ELSE OpenTask(id, WindowSettings(icon))
    IN [window |-> NoWindow,
        connected_devices |-> <<>>,
        task |-> TaskBatch(open_task, WaitTask)]

\* Variant of App::new that opens the window whatever start_minimized is.
AppNew_IgnoresMinimized(minimized, id, icon) ==
    [window |-> id,
     connected_devices |-> <<>>,
     task |-> TaskBatch(OpenTask(id, WindowSettings(icon)), WaitTask)]

AppNew(minimized, id, icon) ==
    LET wait_task == WaitTask
        open_task == IF minimized THEN TaskNone
                     ELSE OpenTask(id, WindowSettings(icon))
    IN [window |-> IF minimized THEN NoWindow ELSE id,
        connected_devices |-> <<>>,
        task |-> TaskBatch(open_task, wait_task)]

\* ------------------------------------------------------------ App::update
UpdateWindowOpened(self, id) ==
    [window |-> id, connected_devices |-> self.connected_devices, task |-> TaskNone]

\* Variant of the WindowClosed arm without the comparison with the stored id.
UpdateWindowClosed_AnyId(self, id) ==
    [window |-> NoWindow, connected_devices |-> self.connected_devices, task |-> TaskNone]

UpdateWindowClosed(self, id) ==
    [window |-> IF self.window = id THEN NoWindow ELSE self.window,
     connected_devices |-> self.connected_devices,
     task |-> TaskNone]

\* Variant of the NoOp arm that returns Task::none().
UpdateNoOp_NoRearm(self) ==
    [window |-> self.window, connected_devices |-> self.connected_devices,
     task |-> TaskNone]

UpdateNoOp(self) ==
    [window |-> self.window, connected_devices |-> self.connected_devices,
     task |-> WaitTask]

\* Variant of the OpenWindow arm that opens a window whatever self.window is.
UpdateOpenWindow_AlwaysCreate(self, new_id, icon) ==
    [window |-> new_id, connected_devices |-> self.connected_devices,
     task |-> TaskBatch(OpenTask(new_id, WindowSettings(icon)), WaitTask)]

\* Variant of the OpenWindow arm that leaves self.window to WindowOpened.
UpdateOpenWindow_HandleNotStored(self, new_id, icon) ==
    IF self.window # NoWindow
    THEN [window |-> self.window, connected_devices |-> self.connected_devices,
          task |-> TaskBatch(FocusTask(self.window), WaitTask)]
    ELSE [window |-> self.window, connected_devices |-> self.connected_devices,
          task |-> TaskBatch(OpenTask(new_id, WindowSettings(icon)), WaitTask)]

UpdateOpenWindow(self, new_id, icon) ==
    LET wait_task == WaitTask
    IN IF self.window # NoWindow
       THEN [window |-> self.window, connected_devices |-> self.connected_devices,
             task |-> TaskBatch(FocusTask(self.window), wait_task)]
       ELSE [window |-> new_id, connected_devices |-> self.connected_devices,
             task |-> TaskBatch(OpenTask(new_id, WindowSettings(icon)), wait_task)]

\* Variant of the DeviceConnected arm that surfaces the window as OpenWindow does.
UpdateDeviceConnected_OpensWindow(self, mac) ==
    LET already_connected == Contains(self.connected_devices, mac)
        devices == IF already_connected THEN self.connected_devices
                   ELSE Append(self.connected_devices, mac)
    IN IF self.window # NoWindow
       THEN [window |-> self.window, connected_devices |-> devices,
             task |-> TaskBatch(FocusTask(self.window), WaitTask)]
       ELSE [window |-> self.window, connected_devices |-> devices,
             task |-> TaskBatch(TaskNone, WaitTask)]

\* Variant of the DeviceConnected arm that returns Task::none().
UpdateDeviceConnected_NoRearm(self, mac) ==
    LET already_connected == Contains(self.connected_devices, mac)
    IN [window |-> self.window,
        connected_devices |-> IF already_connected THEN self.connected_devices
                              ELSE Append(self.connected_devices, mac),
        task |-> TaskNone]

\* Variant of the DeviceConnected arm that pushes without looking for the mac.
UpdateDeviceConnected_AlwaysPush(self, mac) ==
    [window |-> self.window,
     connected_devices |-> Append(self.connected_devices, mac),
     task |-> TaskBatch(TaskNone, WaitTask)]

UpdateDeviceConnected(self, mac) ==
    LET wait_task == WaitTask
        already_connected == Contains(self.connected_devices, mac)
    IN [window |-> self.window,
        connected_devices |-> IF already_connected THEN self.connected_devices
                              ELSE Append(self.connected_devices, mac),
        task |-> TaskBatch(TaskNone, wait_task)]

\* Variant of the DeviceDisconnected arm that returns Task::none().
UpdateDeviceDisconnected_NoRearm(self, mac) ==
    [window |-> self.window, connected_devices |-> self.connected_devices,
     task |-> TaskNone]

UpdateDeviceDisconnected(self, mac) ==
    [window |-> self.window, connected_devices |-> self.connected_devices,
     task |-> TaskBatch(TaskNone, WaitTask)]

\* Variant of the AACPUIEvent arm that batches the wait task twice.
UpdateAACPUIEvent_TwoWaits(self, mac) ==
    [window |-> self.window, connected_devices |-> self.connected_devices,
     task |-> TaskBatch(WaitTask, WaitTask)]

UpdateAACPUIEvent(self, mac) ==
    [window |-> self.window, connected_devices |-> self.connected_devices,
     task |-> TaskBatch(TaskNone, WaitTask)]

\* The match on ui_message at line 175.
UpdateUIMessage(self, ui_message, new_id, icon) ==
    CASE ui_message.type = "NoOp" -> UpdateNoOp(self)
      [] ui_message.type = "OpenWindow" -> UpdateOpenWindow(self, new_id, icon)
      [] ui_message.type = "DeviceConnected" -> UpdateDeviceConnected(self, ui_message.mac)
      [] ui_message.type = "DeviceDisconnected" -> UpdateDeviceDisconnected(self, ui_message.mac)
      [] ui_message.type = "AACPUIEvent" -> UpdateAACPUIEvent(self, ui_message.mac)

\* ------------------------------------------------------- wait_for_message
\* rx.recv().await on a queue q whose sender is alive or not: the value the
\* future resolves to and what is left in the queue.  Blocked is the case
\* in which recv stays suspended.
RecvReady(q, alive) == q # <<>> \/ ~alive

\* Variant of wait_for_message that reads the head without removing it.
WaitForMessage_Peek(q, alive) ==
    IF q # <<>>
    THEN [message |-> Head(q), closed |-> FALSE, rest |-> q]
    ELSE [message |-> NoOp, closed |-> TRUE, rest |-> q]

WaitForMessage(q, alive) ==
    IF q # <<>>
    THEN [message |-> Head(q), closed |-> FALSE, rest |-> Tail(q)]
    ELSE [message |-> NoOp, closed |-> TRUE, rest |-> q]

\* ------------------------------------------------------------- navigation
\* enum Tab
TabDevice(id) == [tag |-> "Device", id |-> id]
TabSettings == [tag |-> "Settings", id |-> ""]

\* selected_tab: Tab::Device("none".to_string())
TabNone == TabDevice("none")

\* Display names are Rust Strings, compared as UTF-8 bytes.
Alpha == <<65, 108, 112, 104, 97>>
Zeta == <<90, 101, 116, 97>>
beta == <<98, 101, 116, 97>>
SettingsLabel == <<83, 101, 116, 116, 105, 110, 103, 115>>

\* Device identifiers the devices file may hold.
RegistryMacs == {"AA:01", "BB:02", "CC:03"}

\* DeviceData values the devices file may hold: name, type_, information.
DevicePool ==
    { [name |-> Alpha, type_ |-> "AirPods", information |-> "AirPods"],
      [name |-> Zeta, type_ |-> "AirPods", information |-> "None"],
      [name |-> beta, type_ |-> "Other", information |-> "None"] }

\* The entries drawn for each identifier: two devices may share a name.
DeviceChoices(mac) ==
    CASE mac = "AA:01" -> {d \in DevicePool : d.name \in {Zeta, Alpha}}
      [] mac = "BB:02" -> {d \in DevicePool : d.name = Alpha}
      [] OTHER -> {d \in DevicePool : d.name = beta}

EmptyMap == [m \in {} |-> 0]

\* What the devices file can be: not there, not JSON of the expected shape
\* (the empty file included), or a JSON object of DeviceData.
DevicesFiles ==
    { [kind |-> "absent", map |-> EmptyMap], [kind |-> "malformed", map |-> EmptyMap] }
      \cup { [kind |-> "json", map |-> f] :
               f \in UNION { {g \in [D -> DevicePool] : \A m \in D : g[m] \in DeviceChoices(m)} :
                             D \in SUBSET RegistryMacs } }

\* view, lines 258-265: the HashMap the render works on.
DevicesList(file) == IF file.kind = "json" THEN file.map ELSE EmptyMap

\* The orders in which HashMap::into_iter may yield the entries.
IterOrders(devices_list) ==
    LET D == DOMAIN devices_list
    IN { o \in [1..Cardinality(D) -> D] : \A i, j \in 1..Cardinality(D) : o[i] = o[j] => i = j }

\* u8 to ASCII lower case.
ToLower(c) == IF c >= 65 /\ c <= 90 THEN c + 32 ELSE c

\* Variant of the name comparison that ignores case.
RECURSIVE LexLess_IgnoreCase(_, _)
LexLess_IgnoreCase(a, b) ==
    IF a = <<>> THEN b # <<>>
    ELSE IF b = <<>> THEN FALSE
    ELSE IF ToLower(Head(a)) # ToLower(Head(b)) THEN ToLower(Head(a)) < ToLower(Head(b))
    ELSE LexLess_IgnoreCase(Tail(a), Tail(b))

\* String::cmp(a, b) = Less: byte-wise lexicographic.
RECURSIVE LexLess(_, _)
LexLess(a, b) ==
    IF a = <<>> THEN b # <<>>
    ELSE IF b = <<>> THEN FALSE
    ELSE IF Head(a) # Head(b) THEN Head(a) < Head(b)
    ELSE LexLess(Tail(a), Tail(b))

\* devices_vec.sort_by(|a, b| a.1.name.cmp(&b.1.name)): a stable sort.
RECURSIVE InsertByName(_, _)
InsertByName(sorted, e) ==
    IF sorted = <<>> THEN <<e>>
    ELSE IF LexLess(e.device.name, Head(sorted).device.name) THEN <<e>> \o sorted
    ELSE <<Head(sorted)>> \o InsertByName(Tail(sorted), e)

RECURSIVE SortByName(_)
SortByName(devices_vec) ==
    IF devices_vec = <<>> THEN <<>>
    ELSE InsertByName(SortByName(SubSeq(devices_vec, 1, Len(devices_vec) - 1)),
                      devices_vec[Len(devices_vec)])

\* create_tab_button(tab, label, description, connected)
\* Variant of create_tab_button that highlights by the kind of the selection.
TabButton_ByKind(self, tab, label, connected) ==
    [tab |-> tab, label |-> label, connected |-> connected,
     is_selected |-> self.selected_tab.tag = tab.tag /\ self.selected_tab.id # "none"]

TabButton(self, tab, label, connected) ==
    [tab |-> tab, label |-> label, connected |-> connected,
     is_selected |-> self.selected_tab = tab]

\* create_settings_button()
SettingsButton(self) ==
    [tab |-> TabSettings, label |-> SettingsLabel, connected |-> FALSE,
     is_selected |-> self.selected_tab = TabSettings]

\* Pane::Sidebar: the rows, top to bottom.
Sidebar(self, devices_list, order) ==
    LET devices_vec == SortByName([i \in 1..Len(order) |->
                                      [mac |-> order[i], device |-> devices_list[order[i]]]])
    IN [i \in 1..Len(devices_vec) |->
           TabButton(self, TabDevice(devices_vec[i].mac), devices_vec[i].device.name,
                     Contains(self.connected_devices, devices_vec[i].mac))]
         \o <<SettingsButton(self)>>

\* Pane::Content: which block is rendered; "panic" is the unwrap of line 381
\* on a device that is not in the map.
Content(self, devices_list) ==
    IF self.selected_tab = TabSettings THEN "settings"
    ELSE IF self.selected_tab.id = "none" THEN "placeholder"
    ELSE IF self.selected_tab.id \notin DOMAIN devices_list THEN "panic"
    ELSE IF devices_list[self.selected_tab.id].type_ = "AirPods"
            /\ devices_list[self.selected_tab.id].information = "AirPods"
         THEN "information"
    ELSE "empty"

\* App::view, with the selection it was rendered for.
View(self, file, order) ==
    LET devices_list == DevicesList(file)
    IN [devices_list |-> devices_list, order |-> order,
        selected_tab |-> self.selected_tab,
        rows |-> Sidebar(self, devices_list, order),
        content |-> Content(self, devices_list)]

\* No render yet.
NoView ==
    [devices_list |-> EmptyMap, order |-> <<>>, selected_tab |-> TabNone, rows |-> <<>>,
     content |-> "none"]

\* The fields of App that view reads.
ViewSelf == [selected_tab |-> selected_tab, connected_devices |-> connected_devices]

\* The navigation side at rest: nothing rendered, no devices file.
NavIdle ==
    /\ selected_tab = TabNone
    /\ devices_file = [kind |-> "absent", map |-> EmptyMap]
    /\ view_out = NoView

\* ------------------------------------------------------------------- tray
\* Option<T>: None is the empty set, Some(v) the singleton.
None == {}
Some(v) == {v}
Unwrap(o) == CHOOSE v \in o : TRUE

\* format!("{}", b) for an unsigned integer: decimal digits, no padding.
Digits == <<"0", "1", "2", "3", "4", "5", "6", "7", "8", "9">>

RECURSIVE FormatU8(_)
FormatU8(n) ==
    IF n < 10 THEN Digits[n + 1]
    ELSE FormatU8(n \div 10) \o Digits[(n % 10) + 1]

\* u8::min
MinU8(a, b) == IF a <= b THEN a ELSE b

\* Variant of icon_pixmap that takes the larger of the two percentages.
IconText_Max(this) ==
    IF this.connected
    THEN LET min_battery ==
                 CASE this.battery_l # None /\ this.battery_r # None ->
                          Some(IF Unwrap(this.battery_l) >= Unwrap(this.battery_r)
                               THEN Unwrap(this.battery_l) ELSE Unwrap(this.battery_r))
                   [] this.battery_l # None /\ this.battery_r = None -> this.battery_l
                   [] this.battery_l = None /\ this.battery_r # None -> this.battery_r
                   [] OTHER -> None
         IN IF min_battery # None THEN FormatU8(Unwrap(min_battery)) ELSE "?"
    ELSE "D"

\* MyTray::icon_pixmap, lines 32-42: the text passed to generate_icon(&text, true).
IconText(this) ==
    IF this.connected
    THEN LET min_battery ==
                 CASE this.battery_l # None /\ this.battery_r # None ->
                          Some(MinU8(Unwrap(this.battery_l), Unwrap(this.battery_r)))
                   [] this.battery_l # None /\ this.battery_r = None -> this.battery_l
                   [] this.battery_l = None /\ this.battery_r # None -> this.battery_r
                   [] OTHER -> None
         IN IF min_battery # None THEN FormatU8(Unwrap(min_battery)) ELSE "?"
    ELSE "D"

\* self.battery_x.map(|b| format!("X: {}%", b)).unwrap_or("X: ?".to_string())
BatteryText(channel, battery) ==
    IF battery # None THEN channel \o ": " \o FormatU8(Unwrap(battery)) \o "%"
    ELSE channel \o ": ?"

\* self.battery_x_status.map(|s| format!(" ({:?})", s)).unwrap_or("".to_string())
StatusText(status) ==
    IF status # None THEN " (" \o Unwrap(status) \o ")" ELSE ""

\* Variant of tool_tip that attaches the right and case texts the other way round.
ToolTip_CaseBeforeRight(this) ==
    IF this.connected
    THEN [title |-> "Battery Status",
          description |->
              BatteryText("L", this.battery_l) \o StatusText(this.battery_l_status) \o " "
                \o BatteryText("C", this.battery_c) \o StatusText(this.battery_c_status) \o " "
                \o BatteryText("R", this.battery_r) \o StatusText(this.battery_r_status)]
    ELSE [title |-> "Not Connected", description |-> "Device is not connected."]

\* MyTray::tool_tip
ToolTip(this) ==
    IF this.connected
    THEN LET l == BatteryText("L", this.battery_l)
             l_status == StatusText(this.battery_l_status)
             r == BatteryText("R", this.battery_r)
             r_status == StatusText(this.battery_r_status)
             c == BatteryText("C", this.battery_c)
             c_status == StatusText(this.battery_c_status)
         IN [title |-> "Battery Status",
             description |-> l \o l_status \o " " \o r \o r_status \o " " \o c \o c_status]
    ELSE [title |-> "Not Connected", description |-> "Device is not connected."]

\* The two vec![(label, code), ...] of menu, lines 72-85.
OptionsWithOff ==
    << [label |-> "Off", val |-> 1], [label |-> "ANC", val |-> 2],
       [label |-> "Transparency", val |-> 3], [label |-> "Adaptive", val |-> 4] >>

OptionsWithoutOff ==
    << [label |-> "ANC", val |-> 2], [label |-> "Transparency", val |-> 3],
       [label |-> "Adaptive", val |-> 4] >>

\* Variant of the option list that shows Off whenever the flag is present.
MenuOptions_OffWhenPresent(this) ==
    IF this.allow_off_option # None THEN OptionsWithOff ELSE OptionsWithoutOff

MenuOptions(this) ==
    LET allow_off == this.allow_off_option = Some(1)
    IN IF allow_off THEN OptionsWithOff ELSE OptionsWithoutOff

\* options.iter().position(|&(_, val)| val == mode): zero-based, None if absent.
Position(options, mode) ==
    LET hits == {i \in 1..Len(options) : options[i].val = mode}
    IN IF hits = {} THEN None
       ELSE Some((CHOOSE i \in hits : \A j \in hits : i <= j) - 1)

\* MyTray::menu: the radio group and the checkmark item.
Menu(this) ==
    LET options == MenuOptions(this)
        position == IF this.listening_mode = None THEN None
                    ELSE Position(options, Unwrap(this.listening_mode))
        selected == IF position # None THEN Unwrap(position) ELSE 0
    IN [options |-> options,
        selected |-> selected,
        checked |-> IF this.conversation_detect_enabled # None
                    THEN Unwrap(this.conversation_detect_enabled) ELSE FALSE,
        enabled |-> this.conversation_detect_enabled # None]

\* Nothing displayed yet.
NoMenu == [options |-> <<>>, selected |-> 0, checked |-> FALSE, enabled |-> FALSE]

\* (ControlCommandIdentifiers, Vec<u8>)
Command(identifier, value) == [identifier |-> identifier, payload |-> <<value>>]

\* Variant of the select closure that looks the code up in the option list of
\* the tray as it is now, not in the list that was displayed.
Select_CurrentOptions(this, options_clone, current) ==
    IF this.command_tx # None
    THEN LET options == MenuOptions(this)
             value == IF current < Len(options) THEN options[current + 1].val ELSE 2
         IN [this |-> this, emitted |-> <<Command("ListeningMode", value)>>]
    ELSE [this |-> this, emitted |-> <<>>]

\* Variant of the select closure that also stores the chosen mode in the tray.
Select_Optimistic(this, options_clone, current) ==
    IF this.command_tx # None
    THEN LET value == IF current < Len(options_clone) THEN options_clone[current + 1].val
                      ELSE 2
         IN [this |-> [this EXCEPT !.listening_mode = Some(value)],
             emitted |-> <<Command("ListeningMode", value)>>]
    ELSE [this |-> this, emitted |-> <<>>]

\* RadioGroup.select, lines 93-98: the tray afterwards and what was sent.
Select(this, options_clone, current) ==
    IF this.command_tx # None
    THEN LET value == IF current < Len(options_clone) THEN options_clone[current + 1].val
                      ELSE 2
         IN [this |-> this, emitted |-> <<Command("ListeningMode", value)>>]
    ELSE [this |-> this, emitted |-> <<>>]

\* Variant of the activate closure with the two codes exchanged.
Activate_CodesExchanged(this) ==
    IF this.command_tx # None /\ this.conversation_detect_enabled # None
    THEN LET new_state == ~Unwrap(this.conversation_detect_enabled)
             value == IF ~new_state THEN 1 ELSE 2
         IN [this |-> [this EXCEPT !.conversation_detect_enabled = Some(new_state)],
             emitted |-> <<Command("ConversationDetectConfig", value)>>]
    ELSE [this |-> this, emitted |-> <<>>]

\* CheckmarkItem.activate, lines 110-119.
Activate(this) ==
    IF this.command_tx # None /\ this.conversation_detect_enabled # None
    THEN LET is_enabled == Unwrap(this.conversation_detect_enabled)
             new_state == ~is_enabled
             value == IF ~new_state THEN 2 ELSE 1
         IN [this |-> [this EXCEPT !.conversation_detect_enabled = Some(new_state)],
             emitted |-> <<Command("ConversationDetectConfig", value)>>]
    ELSE [this |-> this, emitted |-> <<>>]

\* struct MyTray with the values the checks draw its fields from.
BatteryLevels == {5, 72, 100}
BatteryStatus == {"Charging"}
ListeningModes == {1, 2, 3, 4, 9}
AllowOffValues == {0, 1, 2}

Option(S) == {None} \cup {Some(v) : v \in S}

\* A tray before any device reported anything.
TrayDefault ==
    [conversation_detect_enabled |-> None,
     battery_l |-> None, battery_l_status |-> None,
     battery_r |-> None, battery_r_status |-> None,
     battery_c |-> None, battery_c_status |-> None,
     connected |-> FALSE,
     listening_mode |-> None,
     allow_off_option |-> None,
     command_tx |-> None]

\* Trays whose battery fields vary.
StatusTrays ==
    { [TrayDefault EXCEPT !.connected = k, !.command_tx = Some("tx"),
                          !.battery_l = l, !.battery_l_status = ls,
                          !.battery_r = r, !.battery_r_status = rs,
                          !.battery_c = c, !.battery_c_status = cs] :
        k \in BOOLEAN, l \in Option(BatteryLevels), r \in Option(BatteryLevels),
        c \in Option({50}), ls \in Option(BatteryStatus), rs \in Option({"NotCharging"}),
        cs \in Option({"Disconnected"}) }

\* Trays whose menu fields vary.
MenuTrays ==
    { [TrayDefault EXCEPT !.connected = TRUE, !.command_tx = tx,
                          !.conversation_detect_enabled = cd,
                          !.listening_mode = lm, !.allow_off_option = ao] :
        tx \in Option({"tx"}), cd \in Option(BOOLEAN), lm \in Option(ListeningModes),
        ao \in Option(AllowOffValues) }

\* A call on the tray: which, with what index, on what tray, and its results.
TrayCall(op, current, before, text, title, emitted) ==
    [op |-> op, current |-> current, before |-> before, text |-> text, title |-> title,
     emitted |-> emitted]

\* The tray at rest.
TrayIdle ==
    /\ tray = TrayDefault
    /\ tray_out = TrayCall("none", 0, TrayDefault, "", "", <<>>)
    /\ menu_shown = NoMenu

\* ---------------------------------------------------------- generate_icon
\* let width = 64; let height = 64;
Width == 64
Height == 64

\* width as f32 / 2.0, height as f32 / 2.0
center_x == 32
center_y == 32
inner_radius == 22
outer_radius == 28

\* Rgba([r, g, b, a])
Transparent == <<0, 0, 0, 0>>
RingBackground == <<128, 128, 128, 255>>
RingFill == <<0, 255, 0, 255>>
GlyphColor == <<255, 255, 255, 255>>

IsDigit(ch) == \E d \in 1..10 : Digits[d] = ch
DigitValue(ch) == (CHOOSE d \in 1..10 : Digits[d] = ch) - 1

\* text.trim_end_matches('%')
RECURSIVE TrimPercent(_)
TrimPercent(text) ==
    IF Len(text) > 0 /\ SubSeq(text, Len(text), Len(text)) = "%"
    THEN TrimPercent(SubSeq(text, 1, Len(text) - 1))
    ELSE text

\* parse::<f32>() of a string of decimal digits.
RECURSIVE ParseDecimal(_)
ParseDecimal(text) ==
    IF Len(text) = 0 THEN 0
    ELSE 10 * ParseDecimal(SubSeq(text, 1, Len(text) - 1))
           + DigitValue(SubSeq(text, Len(text), Len(text)))

\* The percentage, times 100.  The texts of the model are digit strings and
\* texts parse::<f32> rejects, so unwrap_or(0.0) is the only other outcome.
Percentage(text) ==
    IF Len(text) > 0 /\ SubSeq(text, Len(text), Len(text)) = "%"
    THEN LET body == TrimPercent(text)
         IN IF Len(body) > 0 /\ \A i \in 1..Len(body) : IsDigit(SubSeq(body, i, i))
            THEN ParseDecimal(body)
            ELSE 0
    ELSE 0

\* angle_from_top = (PI/2 - dy.atan2(dx)).rem_euclid(2 PI) for integers dx, dy
\* not both zero, on a scale of eight steps to the turn: 0, 2, 4, 6 stand for
\* exactly 0, PI/2, PI, 3PI/2 and 1, 3, 5, 7 for the open quarter turns
\* between them.  atan2 is exact on the axes and so are the f32 sums there.
AngleFromTop(dx, dy) ==
    CASE dx = 0 /\ dy > 0 -> 0
      [] dx > 0 /\ dy > 0 -> 1
      [] dx > 0 /\ dy = 0 -> 2
      [] dx > 0 /\ dy < 0 -> 3
      [] dx = 0 /\ dy < 0 -> 4
      [] dx < 0 /\ dy < 0 -> 5
      [] dx < 0 /\ dy = 0 -> 6
      [] dx < 0 /\ dy > 0 -> 7

\* percentage * 2 PI on the same scale; exact when the percentage is a
\* multiple of a quarter, which the ring texts of the model are.
FillAngle(percent) == (percent * 8) \div 100

\* dist > inner_radius && dist <= outer_radius, on the squares.
InRing(dx, dy) ==
    LET dist2 == dx * dx + dy * dy
    IN dist2 > inner_radius * inner_radius /\ dist2 <= outer_radius * outer_radius

\* The two loops of ring mode, lines 156-182, for one pixel.
RingPixel(percent, x, y) ==
    LET dx == x - center_x
        dy == y - center_y
    IN IF ~InRing(dx, dy) THEN Transparent
       ELSE IF AngleFromTop(dx, dy) <= FillAngle(percent) THEN RingFill
       ELSE RingBackground

\* DejaVuSans.ttf as embedded at line 185: hhea ascender 1901 and descender
\* -483 (height 2384 font units) and the hmtx advance widths of the glyphs.
HeightUnscaled == 2384
AdvanceUnits(ch) ==
    CASE ch = "D" -> 1577
      [] ch = "?" -> 1087
      [] ch = "%" -> 1946
      [] OTHER -> 1303

\* PxScale::from(48.0)
Scale == 48

\* text_width, lines 201-205, in font units: the pixel width is
\* TextUnits * Scale / HeightUnscaled.
RECURSIVE TextUnits(_)
TextUnits(text) ==
    IF Len(text) = 0 THEN 0
    ELSE TextUnits(SubSeq(text, 1, Len(text) - 1))
           + AdvanceUnits(SubSeq(text, Len(text), Len(text)))

\* ((width as f32 - text_width) / 2.0).max(0.0) as i32
GlyphX(text) ==
    LET free == Width * HeightUnscaled - TextUnits(text) * Scale
    IN IF free > 0 THEN free \div (2 * HeightUnscaled) ELSE 0

\* ((height as f32 - scale.y) / 2.0).max(0.0) as i32
GlyphY == IF Height > Scale THEN (Height - Scale) \div 2 ELSE 0

\* draw_text_mut: the coverage the rasterizer computes from the outlines is
\* replaced by the layout box of the text, every pixel of it inked.
GlyphPixel(text, x, y) ==
    IF /\ x >= GlyphX(text)
       /\ x * HeightUnscaled < GlyphX(text) * HeightUnscaled + TextUnits(text) * Scale
       /\ y >= GlyphY
       /\ y < GlyphY + Scale
    THEN GlyphColor
    ELSE Transparent

\* img after drawing, in the order img.pixels() yields it (row by row).
Image(text, text_mode) ==
    LET percent == Percentage(text)
    IN [p \in 1..(Width * Height) |->
          LET x == (p - 1) % Width
              y == (p - 1) \div Width
          IN IF text_mode THEN GlyphPixel(text, x, y) ELSE RingPixel(percent, x, y)]

\* Variant of the encoding loop that pushes the channels in image order.
Encode_RGBA(img) ==
    [i \in 1..(4 * Len(img)) |-> img[((i - 1) \div 4) + 1][((i - 1) % 4) + 1]]

\* Lines 212-218: data.push(pixel[3]), pixel[0], pixel[1], pixel[2].
Encode(img) ==
    [i \in 1..(4 * Len(img)) |->
        LET pixel == img[((i - 1) \div 4) + 1]
            k == (i - 1) % 4
        IN IF k = 0 THEN pixel[4] ELSE pixel[k]]

\* FontRef::try_from_slice(font_data)
FontLoad == {"Ok", "Err"}

\* generate_icon(text, text_mode): the Icon, and the local x of glyph mode.
GenerateIcon(text, text_mode, font_load) ==
    IF text_mode /\ font_load = "Err"
    THEN [width |-> Width, height |-> Height,
          data |-> [i \in 1..(Width * Height * 4) |-> 0], x |-> 0]
    ELSE [width |-> Width, height |-> Height,
          data |-> Encode(Image(text, text_mode)),
          x |-> IF text_mode THEN GlyphX(text) ELSE 0]

\* The texts icon_pixmap can pass.
GlyphTexts == {"D", "?"} \cup {FormatU8(b) : b \in 0..100}

\* Percentage strings, a text without the sign and one that does not parse.
RingTexts == {"0%", "25%", "50%", "75%", "100%", "50", "x%"}

NoCall == [text |-> "", text_mode |-> FALSE, active |-> FALSE]
IconCall(text, text_mode) == [text |-> text, text_mode |-> text_mode, active |-> TRUE]
NoIcon == [width |-> 0, height |-> 0, data |-> <<>>, x |-> 0]

IconIdle ==
    /\ font = "Ok"
    /\ icon_in = NoCall
    /\ icon_out = NoIcon

\* ------------------------------------------------------------ preferences
\* The themes of the selector, lines 107-130.
Themes ==
    {"Light", "Dark", "Dracula", "Nord", "SolarizedLight", "SolarizedDark",
     "GruvboxLight", "GruvboxDark", "CatppuccinLatte", "CatppuccinFrappe",
     "CatppuccinMacchiato", "CatppuccinMocha", "TokyoNight", "TokyoNightStorm",
     "TokyoNightLight", "KanagawaWave", "KanagawaDragon", "KanagawaLotus",
     "Moonfly", "Nightfly", "Oxocarbon", "Ferra"}

\* .unwrap_or(MyTheme::Dark)
DefaultTheme == "Dark"

\* The JSON value serde writes for a MyTheme (the enum and its Serialize and
\* Deserialize live in crate::utils): the variant name as a JSON string.
ThemeToJson(theme) == "\"" \o theme \o "\""

\* serde_json::from_value::<MyTheme>(t).ok()
ThemeFromJson(value) == {t \in Themes : ThemeToJson(t) = value}

\* The settings file: absent, not JSON, or a JSON object whose "theme" key is
\* missing (None) or holds a value.
SettingsAbsent == [kind |-> "absent", theme |-> None]
SettingsJson(value) == [kind |-> "json", theme |-> value]

SettingsFiles ==
    {SettingsAbsent, [kind |-> "malformed", theme |-> None], SettingsJson(None),
     SettingsJson(Some("\"Chartreuse\"")), SettingsJson(Some("7"))}
      \cup {SettingsJson(Some(ThemeToJson(t))) : t \in {"Light", "Ferra"}}

\* App::new, lines 92-98.
LoadTheme(file) ==
    IF file.kind # "json" THEN DefaultTheme
    ELSE IF file.theme = None THEN DefaultTheme
    ELSE LET t == ThemeFromJson(Unwrap(file.theme))
         IN IF t = None THEN DefaultTheme ELSE Unwrap(t)

\* Variant of the ThemeSelected arm that keeps the theme in memory only.
UpdateThemeSelected_NoWrite(self, theme, write_ok) ==
    [selected_theme |-> theme, settings_file |-> self.settings_file, task |-> TaskNone]

\* The ThemeSelected arm, lines 163-170: std::fs::write(..).ok() succeeds or
\* fails (write_ok), and a failure is dropped.
UpdateThemeSelected(self, theme, write_ok) ==
    LET settings == SettingsJson(Some(ThemeToJson(theme)))
    IN [selected_theme |-> theme,
        settings_file |-> IF write_ok THEN settings ELSE self.settings_file,
        task |-> TaskNone]

\* No preference operation yet beyond App::new: selected is the theme of the
\* most recent ThemeSelected, saved the theme of the most recent one whose
\* write succeeded.
PrefCall(op, selected, saved) == [op |-> op, selected |-> selected, saved |-> saved]

PrefIdle ==
    /\ settings_file = SettingsAbsent
    /\ selected_theme = LoadTheme(SettingsAbsent)
    /\ pref_out = PrefCall("new", None, None)

\* ----------------------------------------------------- update, as a whole
\* enum Message
MsgWindowOpened(id) == [kind |-> "WindowOpened", id |-> id]
MsgWindowClosed(id) == [kind |-> "WindowClosed", id |-> id]
MsgResized == [kind |-> "Resized"]
MsgSelectTab(tab) == [kind |-> "SelectTab", tab |-> tab]
MsgThemeSelected(theme) == [kind |-> "ThemeSelected", theme |-> theme]
MsgCopyToClipboard == [kind |-> "CopyToClipboard"]
MsgUIMessage(ui_message) == [kind |-> "UIMessage", ui |-> ui_message]

\* The fields of App that update and view read and write, with the settings
\* file update writes.
AppSelf ==
    [window |-> window, connected_devices |-> connected_devices,
     selected_tab |-> selected_tab, selected_theme |-> selected_theme,
     settings_file |-> settings_file]

\* Variant of update whose DeviceDisconnected arm deselects the device.
Update_DisconnectDeselects(self, message, new_id, icon, write_ok) ==
    LET App(r) == [window |-> r.window, connected_devices |-> r.connected_devices,
                   selected_tab |-> self.selected_tab,
                   selected_theme |-> self.selected_theme,
                   settings_file |-> self.settings_file, task |-> r.task]
        none == [window |-> self.window, connected_devices |-> self.connected_devices,
                 task |-> TaskNone]
    IN CASE message.kind = "WindowOpened" -> App(UpdateWindowOpened(self, message.id))
         [] message.kind = "WindowClosed" -> App(UpdateWindowClosed(self, message.id))
         [] message.kind = "Resized" -> App(none)
         [] message.kind = "SelectTab" -> [App(none) EXCEPT !.selected_tab = message.tab]
         [] message.kind = "ThemeSelected" ->
              LET t == UpdateThemeSelected(self, message.theme, write_ok)
              IN [App(none) EXCEPT !.selected_theme = t.selected_theme,
                                   !.settings_file = t.settings_file]
         [] message.kind = "CopyToClipboard" -> App(none)
         [] message.kind = "UIMessage" ->
              LET r == App(UpdateUIMessage(self, message.ui, new_id, icon))
              IN IF /\ message.ui.type = "DeviceDisconnected"
                    /\ self.selected_tab = TabDevice(message.ui.mac)
                 THEN [r EXCEPT !.selected_tab = TabNone]
                 ELSE r

\* App::update, lines 143-255: the fields afterwards and the task returned.
\* Resized touches only the pane grid and CopyToClipboard only the system
\* clipboard; neither is part of the state.
Update(self, message, new_id, icon, write_ok) ==
    LET App(r) == [window |-> r.window, connected_devices |-> r.connected_devices,
                   selected_tab |-> self.selected_tab,
                   selected_theme |-> self.selected_theme,
                   settings_file |-> self.settings_file, task |-> r.task]
        none == [window |-> self.window, connected_devices |-> self.connected_devices,
                 task |-> TaskNone]
    IN CASE message.kind = "WindowOpened" -> App(UpdateWindowOpened(self, message.id))
         [] message.kind = "WindowClosed" -> App(UpdateWindowClosed(self, message.id))
         [] message.kind = "Resized" -> App(none)
         [] message.kind = "SelectTab" -> [App(none) EXCEPT !.selected_tab = message.tab]
         [] message.kind = "ThemeSelected" ->
              LET t == UpdateThemeSelected(self, message.theme, write_ok)
              IN [App(none) EXCEPT !.selected_theme = t.selected_theme,
                                   !.settings_file = t.settings_file]
         [] message.kind = "CopyToClipboard" -> App(none)
         [] message.kind = "UIMessage" ->
              App(UpdateUIMessage(self, message.ui, new_id, icon))

\* ---------------------------------------------------------------- runtime
\* What the last call returned, for the properties below.
Call(kind, message, id, closed, before, result) ==
    [kind |-> kind, message |-> message, id |-> id, closed |-> closed,
     window_before |-> before.window, devices_before |-> before.connected_devices,
     task |-> result.task]

\* The state App::new(ui_rx, minimized) leaves, its task handed to the runtime.
InitApp(minimized, icon) ==
    LET r == AppNew(minimized, 1, icon)
    IN /\ start_minimized = minimized
       /\ window = r.window
       /\ connected_devices = r.connected_devices
       /\ chan = <<>>
       /\ tx_alive = TRUE
       /\ lockers = r.task.wait
       /\ holder = FALSE
       /\ ui_msgs = <<>>
       /\ next_id = 1 + Cardinality(r.task.open)
       /\ requested = r.task.open
       /\ live = {}
       /\ win_msgs = {}
       /\ icon_file = icon
       /\ sent = <<>>
       /\ handled = <<>>
       /\ last = Call("new", NoOp, NoWindow, FALSE,
                      [window |-> NoWindow, connected_devices |-> <<>>], r)

Init ==
    /\ \E minimized \in BOOLEAN, icon \in IconLoad : InitApp(minimized, icon)
    /\ NavIdle
    /\ TrayIdle
    /\ PrefIdle
    /\ IconIdle

\* The producer sends one event.
ProducerSend ==
    /\ tx_alive
    /\ Len(sent) < MaxEvents
    /\ \E e \in Produced :
         /\ chan' = Append(chan, e)
         /\ sent' = Append(sent, e)
    /\ UNCHANGED <<appVars, tx_alive, lockers, holder, ui_msgs, toolkitVars,
                   handled, last,
                   navVars, trayVars, prefVars, iconVars>>

\* The producer goes away: the sender half is dropped.
ProducerDrop ==
    /\ tx_alive
    /\ tx_alive' = FALSE
    /\ UNCHANGED <<appVars, chan, lockers, holder, ui_msgs, toolkitVars, historyVars,
                   navVars, trayVars, prefVars, iconVars>>

\* wait_for_message, line 654: the lock is granted to one suspended future.
WaitLock ==
    /\ lockers > 0
    /\ ~holder
    /\ lockers' = lockers - 1
    /\ holder' = TRUE
    /\ UNCHANGED <<appVars, chan, tx_alive, ui_msgs, toolkitVars, historyVars,
                   navVars, trayVars, prefVars, iconVars>>

\* wait_for_message, lines 655-661: recv resolves, the guard is dropped on
\* return and the result is handed to the runtime.
WaitRecv ==
    /\ holder
    /\ RecvReady(chan, tx_alive)
    /\ LET r == WaitForMessage(chan, tx_alive)
       IN /\ chan' = r.rest
          /\ ui_msgs' = Append(ui_msgs, [message |-> r.message, closed |-> r.closed])
    /\ holder' = FALSE
    /\ UNCHANGED <<appVars, tx_alive, lockers, toolkitVars, historyVars,
                   navVars, trayVars, prefVars, iconVars>>

\* The runtime runs a task returned by update.
RunTask(task) ==
    /\ lockers' = lockers + task.wait
    /\ requested' = requested \cup task.open
    /\ next_id' = next_id + Cardinality(task.open)

\* update(Message::UIMessage(m)) for the oldest resolved wait_for_message.
HandleUIMessage ==
    /\ ui_msgs # <<>>
    /\ LET m == Head(ui_msgs)
           r == UpdateUIMessage(Self, m.message, next_id, icon_file)
       IN /\ window' = r.window
          /\ connected_devices' = r.connected_devices
          /\ RunTask(r.task)
          /\ ui_msgs' = Tail(ui_msgs)
          /\ handled' = IF m.closed THEN handled ELSE Append(handled, m.message)
          /\ last' = Call("UIMessage", m.message, NoWindow, m.closed, Self, r)
    /\ UNCHANGED <<start_minimized, chan, tx_alive, holder, live, win_msgs, icon_file, sent,
                   navVars, trayVars, prefVars, iconVars>>

\* update(Message::WindowOpened(id))
HandleWindowOpened ==
    \E m \in win_msgs :
        /\ m.kind = "WindowOpened"
        /\ LET r == UpdateWindowOpened(Self, m.id)
           IN /\ window' = r.window
              /\ connected_devices' = r.connected_devices
              /\ RunTask(r.task)
              /\ last' = Call("WindowOpened", NoOp, m.id, FALSE, Self, r)
        /\ win_msgs' = win_msgs \ {m}
        /\ UNCHANGED <<start_minimized, chan, tx_alive, holder, ui_msgs, live, icon_file,
                       sent, handled,
                   navVars, trayVars, prefVars, iconVars>>

\* update(Message::WindowClosed(id))
HandleWindowClosed ==
    \E m \in win_msgs :
        /\ m.kind = "WindowClosed"
        /\ LET r == UpdateWindowClosed(Self, m.id)
           IN /\ window' = r.window
              /\ connected_devices' = r.connected_devices
              /\ RunTask(r.task)
              /\ last' = Call("WindowClosed", NoOp, m.id, FALSE, Self, r)
        /\ win_msgs' = win_msgs \ {m}
        /\ UNCHANGED <<start_minimized, chan, tx_alive, holder, ui_msgs, live, icon_file,
                       sent, handled,
                   navVars, trayVars, prefVars, iconVars>>

\* The toolkit carries out a window::open request; the open task resolves
\* to the id, mapped to Message::WindowOpened.
ToolkitOpen ==
    \E r \in requested :
        /\ requested' = requested \ {r}
        /\ live' = live \cup {r.id}
        /\ win_msgs' = win_msgs \cup {[kind |-> "WindowOpened", id |-> r.id]}
        /\ UNCHANGED <<appVars, bridgeVars, next_id, icon_file, historyVars,
                   navVars, trayVars, prefVars, iconVars>>

\* The user closes a window; window::close_events() reports it as
\* Message::WindowClosed (App::subscription).
ToolkitClose ==
    \E id \in live :
        /\ live' = live \ {id}
        /\ win_msgs' = win_msgs \cup {[kind |-> "WindowClosed", id |-> id]}
        /\ UNCHANGED <<appVars, bridgeVars, next_id, requested, icon_file, historyVars,
                   navVars, trayVars, prefVars, iconVars>>

Next ==
    \/ ProducerSend
    \/ ProducerDrop
    \/ WaitLock
    \/ WaitRecv
    \/ HandleUIMessage
    \/ HandleWindowOpened
    \/ HandleWindowClosed
    \/ ToolkitOpen
    \/ ToolkitClose

Spec == Init /\ [][Next]_vars

\* Fair scheduling: the executor polls a future that can make progress and
\* the runtime hands a resolved message to update.
FairSpec ==
    /\ Spec
    /\ WF_vars(WaitLock)
    /\ WF_vars(WaitRecv)
    /\ WF_vars(HandleUIMessage)

\* ------------------------------------------------- navigation, as a system
\* The process is gone once a render has panicked.
Alive == view_out.content # "panic"

\* The runtime renders the window: view(&self, id).
NavView ==
    /\ Alive
    /\ \E order \in IterOrders(DevicesList(devices_file)) :
         view_out' = View(ViewSelf, devices_file, order)
    /\ UNCHANGED <<appVars, bridgeVars, toolkitVars, historyVars, trayVars, prefVars, iconVars,
                   selected_tab, devices_file>>

\* The user presses a row of the rendered sidebar:
\* update(Message::SelectTab(tab)), lines 159-162.
NavSelectTab ==
    /\ Alive
    /\ \E i \in 1..Len(view_out.rows) : selected_tab' = view_out.rows[i].tab
    /\ UNCHANGED <<appVars, bridgeVars, toolkitVars, historyVars, trayVars, prefVars, iconVars,
                   devices_file, view_out>>

\* The device layer rewrites or removes the devices file.
NavDevicesFileWrite ==
    /\ Alive
    /\ \E f \in DevicesFiles : f # devices_file /\ devices_file' = f
    /\ UNCHANGED <<appVars, bridgeVars, toolkitVars, historyVars, trayVars, prefVars, iconVars,
                   selected_tab, view_out>>

NavInit ==
    /\ InitApp(FALSE, "Some")
    /\ NavIdle
    /\ TrayIdle
    /\ PrefIdle
    /\ IconIdle

NavNext == NavView \/ NavSelectTab \/ NavDevicesFileWrite

NavSpec == NavInit /\ [][NavNext]_vars

\* ------------------------------------------------------- tray, as a system
\* The tray host asks for the icon.
TrayIconPixmap ==
    /\ tray_out' = TrayCall("icon_pixmap", 0, tray, IconText(tray), "", <<>>)
    /\ UNCHANGED <<appVars, bridgeVars, toolkitVars, historyVars, navVars, prefVars, iconVars, tray, menu_shown>>

\* The tray host asks for the tooltip.
TrayToolTip ==
    /\ LET t == ToolTip(tray)
       IN tray_out' = TrayCall("tool_tip", 0, tray, t.description, t.title, <<>>)
    /\ UNCHANGED <<appVars, bridgeVars, toolkitVars, historyVars, navVars, prefVars, iconVars, tray, menu_shown>>

\* The tray host asks for the menu and displays it.
TrayMenu ==
    /\ menu_shown' = Menu(tray)
    /\ tray_out' = TrayCall("menu", 0, tray, "", "", <<>>)
    /\ UNCHANGED <<appVars, bridgeVars, toolkitVars, historyVars, navVars, prefVars, iconVars, tray>>

\* The user picks the option at index current of the displayed radio group.
TraySelect ==
    /\ \E current \in 0..(Len(menu_shown.options) - 1) :
         LET r == Select(tray, menu_shown.options, current)
         IN /\ tray' = r.this
            /\ tray_out' = TrayCall("select", current, tray, "", "", r.emitted)
    /\ UNCHANGED <<appVars, bridgeVars, toolkitVars, historyVars, navVars, prefVars, iconVars, menu_shown>>

\* The user activates the conversation detection item of the displayed menu.
TrayActivate ==
    /\ menu_shown # NoMenu
    /\ LET r == Activate(tray)
       IN /\ tray' = r.this
          /\ tray_out' = TrayCall("activate", 0, tray, "", "", r.emitted)
    /\ UNCHANGED <<appVars, bridgeVars, toolkitVars, historyVars, navVars, prefVars, iconVars, menu_shown>>

\* The device layer writes a new allow_off_option into the tray.
TrayUpdate ==
    /\ \E ao \in Option(AllowOffValues) :
         /\ ao # tray.allow_off_option
         /\ tray' = [tray EXCEPT !.allow_off_option = ao]
    /\ tray_out' = TrayCall("update", 0, tray, "", "", <<>>)
    /\ UNCHANGED <<appVars, bridgeVars, toolkitVars, historyVars, navVars, prefVars, iconVars, menu_shown>>

TrayInit ==
    /\ InitApp(TRUE, "None")
    /\ NavIdle
    /\ PrefIdle
    /\ IconIdle
    /\ tray \in StatusTrays \cup MenuTrays
    /\ tray_out = TrayCall("none", 0, tray, "", "", <<>>)
    /\ menu_shown = NoMenu

TrayNext ==
    \/ TrayIconPixmap
    \/ TrayToolTip
    \/ TrayMenu
    \/ TraySelect
    \/ TrayActivate
    \/ TrayUpdate

TraySpec == TrayInit /\ [][TrayNext]_vars

\* ---------------------------------------------- generate_icon, as a system
\* icon_pixmap calls generate_icon(&text, true).
IconCallGlyph ==
    /\ ~icon_in.active
    /\ \E text \in GlyphTexts : icon_in' = IconCall(text, TRUE)
    /\ UNCHANGED <<appVars, bridgeVars, toolkitVars, historyVars, navVars, trayVars,
                   prefVars, font, icon_out>>

\* generate_icon(text, false): the ring gauge.
IconCallRing ==
    /\ ~icon_in.active
    /\ \E text \in RingTexts : icon_in' = IconCall(text, FALSE)
    /\ UNCHANGED <<appVars, bridgeVars, toolkitVars, historyVars, navVars, trayVars,
                   prefVars, font, icon_out>>

\* generate_icon returns.
IconReturn ==
    /\ icon_in.active
    /\ icon_out = NoIcon
    /\ icon_out' = GenerateIcon(icon_in.text, icon_in.text_mode, font)
    /\ UNCHANGED <<appVars, bridgeVars, toolkitVars, historyVars, navVars, trayVars,
                   prefVars, font, icon_in>>

\* The caller takes the Icon.
IconTaken ==
    /\ icon_out # NoIcon
    /\ icon_in' = NoCall
    /\ icon_out' = NoIcon
    /\ UNCHANGED <<appVars, bridgeVars, toolkitVars, historyVars, navVars, trayVars,
                   prefVars, font>>

IconInit ==
    /\ InitApp(TRUE, "None")
    /\ NavIdle
    /\ TrayIdle
    /\ PrefIdle
    /\ font \in FontLoad
    /\ icon_in = NoCall
    /\ icon_out = NoIcon

IconNext == IconCallGlyph \/ IconCallRing \/ IconReturn \/ IconTaken

IconSpec == IconInit /\ [][IconNext]_vars

\* ------------------------------------------------ preferences, as a system
\* The user picks a theme in the selector: update(Message::ThemeSelected(t)).
PrefThemeSelected ==
    \E theme \in Themes, write_ok \in BOOLEAN :
        LET r == Update(AppSelf, MsgThemeSelected(theme), next_id, icon_file, write_ok)
        IN /\ selected_theme' = r.selected_theme
           /\ settings_file' = r.settings_file
           /\ pref_out' = PrefCall("select", Some(theme),
                                   IF write_ok THEN Some(theme) ELSE pref_out.saved)
           /\ UNCHANGED <<appVars, bridgeVars, toolkitVars, historyVars, navVars, trayVars,
                          iconVars>>

\* The process is started again: App::new reads the same settings file.
PrefRestart ==
    /\ selected_theme' = LoadTheme(settings_file)
    /\ pref_out' = [pref_out EXCEPT !.op = "new"]
    /\ UNCHANGED <<appVars, bridgeVars, toolkitVars, historyVars, navVars, trayVars,
                   iconVars, settings_file>>

PrefInit ==
    /\ InitApp(FALSE, "Some")
    /\ NavIdle
    /\ TrayIdle
    /\ IconIdle
    /\ settings_file \in SettingsFiles
    /\ selected_theme = LoadTheme(settings_file)
    /\ pref_out = PrefCall("new", None, None)

PrefNext == PrefThemeSelected \/ PrefRestart

PrefSpec == PrefInit /\ [][PrefNext]_vars

\* ------------------------------------------------------ update, as a system
\* Every Message the runtime can hand to update, each handled in one step.
\* The devices file the sidebar is rendered from.
MsgDevicesFile ==
    [kind |-> "json",
     map |-> [m \in Macs |-> [name |-> Alpha, type_ |-> "AirPods", information |-> "AirPods"]]]

\* The themes picked here.
MsgThemes == {"Light"}

\* What a step of update leaves, the task handed to the runtime.
MsgApply(kind, ui_message, id, r) ==
    /\ window' = r.window
    /\ connected_devices' = r.connected_devices
    /\ selected_tab' = r.selected_tab
    /\ selected_theme' = r.selected_theme
    /\ settings_file' = r.settings_file
    /\ requested' = requested \cup r.task.open
    /\ next_id' = next_id + Cardinality(r.task.open)
    /\ last' = Call(kind, ui_message, id, FALSE, Self, r)

\* A wait_for_message resolves to an event and update handles it; the wait
\* task it returns takes the place of the one that resolved.
MsgHandleUIMessage ==
    /\ lockers > 0
    /\ \E m \in Produced :
         /\ (m.type = "OpenWindow" /\ window = NoWindow) => next_id \in WindowIds
         /\ LET r == Update(AppSelf, MsgUIMessage(m), next_id, icon_file, TRUE)
            IN /\ MsgApply("UIMessage", m, NoWindow, r)
               /\ lockers' = (lockers - 1) + r.task.wait
    /\ UNCHANGED <<start_minimized, chan, tx_alive, holder, ui_msgs, live, win_msgs,
                   icon_file, sent, handled, devices_file, view_out, trayVars, pref_out,
                   iconVars>>

MsgHandleWindow ==
    \E m \in win_msgs :
        /\ LET r == Update(AppSelf, [kind |-> m.kind, id |-> m.id], next_id, icon_file, TRUE)
           IN MsgApply(m.kind, NoOp, m.id, r)
        /\ win_msgs' = win_msgs \ {m}
        /\ UNCHANGED <<start_minimized, bridgeVars, live, icon_file, sent, handled,
                       devices_file, view_out, trayVars, pref_out, iconVars>>

\* The user drags the divider or copies a field: Resized, CopyToClipboard.
MsgHandleResized ==
    /\ live # {}
    /\ MsgApply("Resized", NoOp, NoWindow,
                Update(AppSelf, MsgResized, next_id, icon_file, TRUE))
    /\ UNCHANGED <<start_minimized, bridgeVars, live, win_msgs, icon_file, sent, handled,
                   devices_file, view_out, trayVars, pref_out, iconVars>>

MsgHandleCopyToClipboard ==
    /\ live # {}
    /\ view_out.content = "information"
    /\ MsgApply("CopyToClipboard", NoOp, NoWindow,
                Update(AppSelf, MsgCopyToClipboard, next_id, icon_file, TRUE))
    /\ UNCHANGED <<start_minimized, bridgeVars, live, win_msgs, icon_file, sent, handled,
                   devices_file, view_out, trayVars, pref_out, iconVars>>

\* The user presses a row of the rendered sidebar.
MsgHandleSelectTab ==
    /\ live # {}
    /\ \E i \in 1..Len(view_out.rows) :
         MsgApply("SelectTab", NoOp, NoWindow,
                  Update(AppSelf, MsgSelectTab(view_out.rows[i].tab), next_id, icon_file, TRUE))
    /\ UNCHANGED <<start_minimized, bridgeVars, live, win_msgs, icon_file, sent, handled,
                   devices_file, view_out, trayVars, pref_out, iconVars>>

\* The user picks a theme in the selector of the settings pane.
MsgHandleThemeSelected ==
    /\ live # {}
    /\ view_out.content = "settings"
    /\ \E theme \in MsgThemes, write_ok \in BOOLEAN :
         MsgApply("ThemeSelected", NoOp, NoWindow,
                  Update(AppSelf, MsgThemeSelected(theme), next_id, icon_file, write_ok))
    /\ UNCHANGED <<start_minimized, bridgeVars, live, win_msgs, icon_file, sent, handled,
                   devices_file, view_out, trayVars, pref_out, iconVars>>

\* The runtime renders a window that exists.
MsgView ==
    /\ live # {}
    /\ view_out' = View(AppSelf, devices_file, <<"AA:01", "BB:02">>)
    /\ UNCHANGED <<appVars, bridgeVars, toolkitVars, historyVars, trayVars, prefVars,
                   iconVars, selected_tab, devices_file>>

MsgInit ==
    /\ \E minimized \in BOOLEAN : InitApp(minimized, "Some")
    /\ selected_tab = TabNone
    /\ devices_file = MsgDevicesFile
    /\ view_out = NoView
    /\ TrayIdle
    /\ PrefIdle
    /\ IconIdle

MsgNext ==
    \/ MsgHandleUIMessage
    \/ MsgHandleWindow
    \/ MsgHandleResized
    \/ MsgHandleCopyToClipboard
    \/ MsgHandleSelectTab
    \/ MsgHandleThemeSelected
    \/ MsgView
    \/ ToolkitOpen
    \/ ToolkitClose

MsgSpec == MsgInit /\ [][MsgNext]_vars

\* ------------------------------------------------------------- properties
TypeOK ==
    /\ window \in {NoWindow} \cup WindowIds
    /\ \A i \in 1..Len(connected_devices) : connected_devices[i] \in Macs
    /\ \A i \in 1..Len(chan) : chan[i] \in UIMessage
    /\ tx_alive \in BOOLEAN
    /\ lockers \in Nat
    /\ holder \in BOOLEAN
    /\ live \subseteq WindowIds
    /\ \A r \in requested : r.id \in WindowIds

\* wait_for_message futures that have been spawned and have not resolved.
AwaitNextOutstanding == lockers + (IF holder THEN 1 ELSE 0)

\* The queue events among the resolved results not yet handed to update.
InFlight ==
    LET s == SelectSeq(ui_msgs, LAMBDA m : ~m.closed)
    IN [i \in 1..Len(s) |-> s[i].message]

LastIs(type) == last.kind = "UIMessage" /\ last.message.type = type

\* Windows that exist or that the toolkit has been asked to create.
MainWindows == live \cup {r.id : r \in requested}

\* C1: at most one wait_for_message is outstanding against ui_rx in every
\* reachable state.
C1_AtMostOneAwaitNext == AwaitNextOutstanding <= 1

\* A wait is outstanding again after two events went through update.
C1_Witness == AwaitNextOutstanding = 1 /\ holder /\ Len(handled) >= 2

\* C2: the task returned for any Message::UIMessage spawns exactly one
\* wait_for_message, whichever variant and whichever window branch.
C2_RearmExactlyOnce == last.kind = "UIMessage" => last.task.wait = 1

\* OpenWindow handled with a window already stored, one wait spawned.
C2_Witness ==
    /\ LastIs("OpenWindow")
    /\ last.window_before # NoWindow
    /\ last.task.wait = 1
    /\ Len(handled) >= 2

\* C3: the events update has handled, then those resolved and on their way,
\* then those still queued, are exactly the events sent, in order; the only
\* message not taken from the queue is the NoOp of channel closure.
C3_FifoExactlyOnce ==
    /\ handled \o InFlight \o chan = sent
    /\ \A i \in 1..Len(ui_msgs) : ui_msgs[i].closed => ui_msgs[i].message = NoOp
    /\ last.closed => last.message = NoOp

\* Every event the producer could send was handled, two different ones in
\* the order sent, and the closure NoOp was handled after them.
C3_Witness ==
    /\ Len(handled) = MaxEvents
    /\ handled = sent
    /\ handled[1] # handled[2]
    /\ last.closed

\* C4: with the producer gone and the queue empty a wait resolves to the
\* closure NoOp; handling it spawns one wait and leaves window and
\* connected_devices as they were; the bridge can always take a further step.
C4_ClosureNoOpStep ==
    (~tx_alive /\ chan = <<>> /\ holder /\ ~holder')
        => ui_msgs' = Append(ui_msgs, [message |-> NoOp, closed |-> TRUE])

C4_ClosureNoOpState ==
    /\ last.closed =>
         /\ last.message = NoOp
         /\ last.task = WaitTask
         /\ window = last.window_before
         /\ connected_devices = last.devices_before
    /\ (~tx_alive /\ chan = <<>>) => ENABLED (WaitLock \/ WaitRecv \/ HandleUIMessage)

C4_ClosureNoOp == [][C4_ClosureNoOpStep]_vars /\ []C4_ClosureNoOpState

\* A closure NoOp has been handled, the wait it armed has resolved to the
\* next closure NoOp, and the App is as it was.
C4_Witness ==
    /\ last.closed
    /\ ui_msgs = <<[message |-> NoOp, closed |-> TRUE]>>
    /\ ~tx_alive
    /\ Len(handled) >= 1

\* C5: under fair scheduling every event sent is eventually handled; after
\* a resolved event was handled a wait is pending; the mutex is free while a
\* result is on its way to update, and a wait suspended on the mutex
\* eventually gets it.
C5_EventuallyHandled ==
    /\ \A n \in 1..MaxEvents : (Len(sent) >= n) ~> (Len(handled) >= n)
    /\ [](last.kind = "UIMessage" => AwaitNextOutstanding + Len(ui_msgs) >= 1)
    /\ [](ui_msgs # <<>> => ~holder)
    /\ (lockers > 0) ~> holder

\* Every event the bound allows was sent and handled.
C5_Witness == Len(sent) = MaxEvents /\ handled = sent /\ lockers > 0

C7_FocusWhenOpen ==
    (LastIs("OpenWindow") /\ last.window_before # NoWindow) =>
        /\ last.task.focus = {last.window_before}
        /\ last.task.open = {}
        /\ window = last.window_before

\* OpenWindow handled while the stored window exists on screen.
C7_Witness ==
    /\ LastIs("OpenWindow")
    /\ last.window_before # NoWindow
    /\ last.window_before \in live
    /\ last.task.focus = {window}

\* C8: at most one main window exists or is being created.
C8_NeverDuplicated == Cardinality(MainWindows) <= 1

\* A second window exists after the first one was closed, and an OpenWindow
\* arrived while it was there.
C8_Witness ==
    /\ 2 \in live
    /\ LastIs("OpenWindow")
    /\ last.window_before = 2

\* C9: WindowClosed(id) sets window to None when id is the stored id, leaves
\* it alone otherwise, and returns Task::none().
C9_WindowClosed ==
    last.kind = "WindowClosed" =>
        /\ window = IF last.window_before = last.id THEN NoWindow ELSE last.window_before
        /\ last.task = TaskNone

\* WindowClosed for an id other than the stored one.
C9_Witness ==
    /\ last.kind = "WindowClosed"
    /\ last.window_before # NoWindow
    /\ last.window_before # last.id
    /\ window = last.window_before

\* C10: DeviceConnected opens nothing, focuses nothing and keeps window; a
\* window is opened only by OpenWindow or by App::new when not minimized.
C10_ConnectDoesNotOpen ==
    /\ LastIs("DeviceConnected") =>
         /\ last.task.open = {}
         /\ last.task.focus = {}
         /\ window = last.window_before
    /\ last.task.open # {} =>
         \/ LastIs("OpenWindow")
         \/ last.kind = "new" /\ ~start_minimized

\* DeviceConnected handled while a window is stored and on screen.
C10_Witness ==
    /\ LastIs("DeviceConnected")
    /\ window # NoWindow
    /\ window \in live
    /\ Len(connected_devices) >= 1

\* An OpenWindow event has gone through update.
OpenWindowHandled == \E i \in 1..Len(handled) : handled[i].type = "OpenWindow"

\* C11: started minimized, window is None and nothing is asked of the toolkit
\* until an OpenWindow has been handled; started not minimized, exactly one
\* window is requested at startup; either way App::new arms exactly one wait.
C11_StartMinimized ==
    /\ last.kind = "new" =>
         /\ last.task.wait = 1
         /\ AwaitNextOutstanding + Len(ui_msgs) = 1
         /\ IF start_minimized
            THEN window = NoWindow /\ last.task.open = {}
            ELSE Cardinality(last.task.open) = 1 /\ window # NoWindow
    /\ (start_minimized /\ ~OpenWindowHandled) =>
         /\ window = NoWindow
         /\ MainWindows = {}
         /\ win_msgs = {}
         /\ next_id = 1
    /\ (~start_minimized /\ ~OpenWindowHandled) => next_id = 2

\* Started minimized: a first event that is not OpenWindow went by without a
\* window, then OpenWindow created the first one.
C11_Witness ==
    /\ start_minimized
    /\ Len(handled) = 2
    /\ handled[1].type = "DeviceConnected"
    /\ LastIs("OpenWindow")
    /\ last.window_before = NoWindow
    /\ next_id = 2

\* The devices connected according to the events: connected by the latest
\* DeviceConnected(id) with no DeviceDisconnected(id) after it.
RECURSIVE CurrentlyConnected(_)
CurrentlyConnected(events) ==
    IF events = <<>> THEN {}
    ELSE LET e == events[Len(events)]
             prev == CurrentlyConnected(SubSeq(events, 1, Len(events) - 1))
         IN CASE e.type = "DeviceConnected" -> prev \cup {e.mac}
              [] e.type = "DeviceDisconnected" -> prev \ {e.mac}
              [] OTHER -> prev

\* C12: connected_devices holds exactly the devices currently connected, and
\* the sidebar labels a device as connected exactly when it is.
C12_ConnectedSetExact ==
    /\ {connected_devices[i] : i \in 1..Len(connected_devices)} = CurrentlyConnected(handled)
    /\ \A mac \in Macs :
         TabButton(ViewSelf, TabDevice(mac), Alpha, Contains(connected_devices, mac)).connected
            <=> mac \in CurrentlyConnected(handled)

\* C13: no render aborts the process, whatever the devices file holds.
C13_ViewNeverAborts == view_out.content # "panic"

\* a <= b as byte strings, stated without recursion.
BytesLeq(a, b) ==
    \/ Len(a) <= Len(b) /\ \A k \in 1..Len(a) : a[k] = b[k]
    \/ \E k \in 1..Len(a) :
         /\ k <= Len(b)
         /\ a[k] < b[k]
         /\ \A i \in 1..(k - 1) : a[i] = b[i]

\* C14: a rendered sidebar has one row per device of the devices file, in
\* byte-wise order of the names, then the settings row; the names Zeta,
\* Alpha, beta come out as Alpha, Zeta, beta.
C14_SidebarOrder ==
    (view_out.content \notin {"none", "panic"}) =>
        LET n == Len(view_out.rows) - 1
            list == view_out.devices_list
            rows == view_out.rows
        IN /\ n = Cardinality(DOMAIN list)
           /\ rows[n + 1].tab = TabSettings
           /\ {rows[i].tab : i \in 1..n} = {TabDevice(m) : m \in DOMAIN list}
           /\ \A i \in 1..n : rows[i].label = list[rows[i].tab.id].name
           /\ \A i, j \in 1..n : i < j => BytesLeq(rows[i].label, rows[j].label)
           /\ {rows[i].label : i \in 1..n} = {Zeta, Alpha, beta} =>
                 [i \in 1..n |-> rows[i].label] = <<Alpha, Zeta, beta>>

\* The map yielded Zeta, Alpha, beta in that order and the rows are Alpha,
\* Zeta, beta, Settings.
C14_Witness ==
    /\ view_out.content = "placeholder"
    /\ view_out.order = <<"AA:01", "BB:02", "CC:03">>
    /\ view_out.devices_list["AA:01"].name = Zeta
    /\ [i \in 1..Len(view_out.rows) |-> view_out.rows[i].label]
          = <<Alpha, Zeta, beta, SettingsLabel>>

\* C15: the text icon_pixmap hands to generate_icon: disconnected "D";
\* connected the decimal of the smaller of left and right, of the one present
\* if the other is absent, "?" if both are absent.
C15_IconText ==
    tray_out.op = "icon_pixmap" =>
        LET t == tray_out.before
            l == t.battery_l
            r == t.battery_r
        IN IF ~t.connected THEN tray_out.text = "D"
           ELSE IF l = None /\ r = None THEN tray_out.text = "?"
           ELSE \E m \in l \cup r :
                  /\ \A v \in l \cup r : m <= v
                  /\ tray_out.text = ToString(m)

\* Connected, left 72, right 5: the text is "5".
C15_Witness ==
    /\ tray_out.op = "icon_pixmap"
    /\ tray_out.before.connected
    /\ tray_out.before.battery_l = Some(72)
    /\ tray_out.before.battery_r = Some(5)
    /\ tray_out.text = "5"

\* One channel of the tooltip as the claim words it.
ChannelString(channel, battery, status) ==
    channel \o ": "
      \o (IF battery = None THEN "?" ELSE ToString(Unwrap(battery)) \o "%")
      \o (IF status = None THEN "" ELSE " (" \o Unwrap(status) \o ")")

\* C16: connected, the tooltip is the L, R and C strings in that order joined
\* by single spaces; disconnected, it is the fixed not-connected text.
C16_ToolTip ==
    tray_out.op = "tool_tip" =>
        LET t == tray_out.before
        IN IF ~t.connected
           THEN tray_out.title = "Not Connected" /\ tray_out.text = "Device is not connected."
           ELSE /\ tray_out.text =
                     ChannelString("L", t.battery_l, t.battery_l_status) \o " "
                       \o ChannelString("R", t.battery_r, t.battery_r_status) \o " "
                       \o ChannelString("C", t.battery_c, t.battery_c_status)
                /\ ( /\ t.battery_l = Some(72) /\ t.battery_r = None /\ t.battery_c = None
                     /\ t.battery_l_status = None /\ t.battery_r_status = None
                     /\ t.battery_c_status = None )
                     => tray_out.text = "L: 72% R: ? C: ?"

\* Connected, left 72 with no status, right and case unknown.
C16_Witness ==
    /\ tray_out.op = "tool_tip"
    /\ tray_out.before.connected
    /\ tray_out.before.battery_l = Some(72)
    /\ tray_out.before.battery_r = None
    /\ tray_out.before.battery_c = None
    /\ tray_out.text = "L: 72% R: ? C: ?"

Labels(options) == [i \in 1..Len(options) |-> options[i].label]

\* C17: the radio group lists ANC, Transparency, Adaptive unless
\* allow_off_option is Some(0x01), when Off comes first; no other list exists.
C17_MenuOptions ==
    tray_out.op = "menu" =>
        Labels(menu_shown.options) =
            IF tray_out.before.allow_off_option = Some(1)
            THEN <<"Off", "ANC", "Transparency", "Adaptive">>
            ELSE <<"ANC", "Transparency", "Adaptive">>

\* The flag is present with a value other than 0x01 and three options show.
C17_Witness ==
    /\ tray_out.op = "menu"
    /\ tray_out.before.allow_off_option = Some(2)
    /\ Labels(menu_shown.options) = <<"ANC", "Transparency", "Adaptive">>

\* The code the protocol pairs with a label.
CodeOfLabel(label) ==
    CASE label = "Off" -> 1
      [] label = "ANC" -> 2
      [] label = "Transparency" -> 3
      [] label = "Adaptive" -> 4

\* The command a selection at index current of the displayed list stands for.
SelectedCommand ==
    <<Command("ListeningMode",
              CodeOfLabel(menu_shown.options[tray_out.current + 1].label))>>

\* C18 as stated: every selection sends exactly one ListeningMode command
\* carrying the code of the label displayed at that index.
C18_SelectSendsCode ==
    tray_out.op = "select" => tray_out.emitted = SelectedCommand

\* C18 as amended: it does so when command_tx is present; when command_tx is
\* absent the selection sends nothing.
C18_SelectSendsCodeIfChannel ==
    tray_out.op = "select" =>
        IF tray_out.before.command_tx # None
        THEN tray_out.emitted = SelectedCommand
        ELSE tray_out.emitted = <<>>

\* Off picked from a displayed four-option list after the flag was withdrawn.
C18_Witness ==
    /\ tray_out.op = "select"
    /\ tray_out.current = 0
    /\ Len(menu_shown.options) = 4
    /\ tray.allow_off_option # Some(1)
    /\ tray_out.emitted = <<Command("ListeningMode", 1)>>

\* What activation does when it acts: flip, and send 0x01 for true, 0x02 for false.
ToggleActs ==
    LET old == Unwrap(tray_out.before.conversation_detect_enabled)
    IN /\ tray = [tray_out.before EXCEPT !.conversation_detect_enabled = Some(~old)]
       /\ tray_out.emitted =
             <<Command("ConversationDetectConfig", IF ~old THEN 1 ELSE 2)>>

ToggleIdle == tray = tray_out.before /\ tray_out.emitted = <<>>

\* C19 as stated: the item is enabled exactly when the value is present;
\* activation with the value present flips it and sends one command,
\* activation with the value absent does nothing.
C19_Toggle ==
    /\ tray_out.op = "menu" =>
         menu_shown.enabled = (tray_out.before.conversation_detect_enabled # None)
    /\ tray_out.op = "activate" =>
         IF tray_out.before.conversation_detect_enabled # None
         THEN ToggleActs ELSE ToggleIdle

\* C19 as amended: activation acts when the value and command_tx are both
\* present, and does nothing when either is absent.
C19_ToggleIfChannel ==
    /\ tray_out.op = "menu" =>
         menu_shown.enabled = (tray_out.before.conversation_detect_enabled # None)
    /\ tray_out.op = "activate" =>
         IF /\ tray_out.before.conversation_detect_enabled # None
            /\ tray_out.before.command_tx # None
         THEN ToggleActs ELSE ToggleIdle

\* Enabled detection switched off: stored false, 0x02 sent.
C19_Witness ==
    /\ tray_out.op = "activate"
    /\ tray_out.before.conversation_detect_enabled = Some(TRUE)
    /\ tray.conversation_detect_enabled = Some(FALSE)
    /\ tray_out.emitted = <<Command("ConversationDetectConfig", 2)>>

\* C20: an absent field is not shown as a value: with listening_mode absent
\* or not among the options no option is the selected one, and an absent
\* battery percentage reads "?".
C20_TriState ==
    /\ ( /\ tray_out.op = "menu"
         /\ \A i \in 1..Len(menu_shown.options) :
               Some(menu_shown.options[i].val) # tray_out.before.listening_mode )
         => menu_shown.selected \notin 0..(Len(menu_shown.options) - 1)
    /\ ( /\ tray_out.op = "tool_tip"
         /\ tray_out.before.connected
         /\ tray_out.before.battery_l = None )
         => SubSeq(tray_out.text, 1, 4) = "L: ?"

\* A call of generate_icon has returned, in ring mode or in glyph mode.
RingResult == icon_in.active /\ ~icon_in.text_mode /\ icon_out # NoIcon
GlyphResult == icon_in.active /\ icon_in.text_mode /\ icon_out # NoIcon

\* Pixel p of the returned buffer (1 is the top left, row by row): its four
\* bytes and its offset from the centre.
PixelBytes(p) ==
    <<icon_out.data[4 * p - 3], icon_out.data[4 * p - 2], icon_out.data[4 * p - 1],
      icon_out.data[4 * p]>>
PixelDx(p) == ((p - 1) % 64) - 32
PixelDy(p) == ((p - 1) \div 64) - 32

\* Pixels at a distance in (22, 28] from the centre.
IsAnnulus(p) ==
    LET d2 == PixelDx(p) * PixelDx(p) + PixelDy(p) * PixelDy(p)
    IN d2 > 22 * 22 /\ d2 <= 28 * 28
Annulus == {p \in 1..(64 * 64) : IsAnnulus(p)}

\* Pixels that carry the fill colour, opaque green, as alpha, red, green, blue.
IsFilled(p) == PixelBytes(p) = <<255, 0, 255, 0>>
Filled == {p \in 1..(64 * 64) : IsFilled(p)}

PercentOf(text) ==
    CASE text = "0%" -> 0
      [] text = "25%" -> 25
      [] text = "50%" -> 50
      [] text = "75%" -> 75
      [] text = "100%" -> 100

\* C21: in ring mode the filled pixels are exactly the annulus pixels whose
\* angle is strictly less than P/100 of a turn; "0%" fills none and "100%"
\* fills the whole annulus.
C21_RingFill ==
    (RingResult /\ icon_in.text \in {"0%", "25%", "50%", "75%", "100%"}) =>
        /\ Filled = {p \in Annulus :
                        AngleFromTop(PixelDx(p), PixelDy(p)) * 100
                            < 8 * PercentOf(icon_in.text)}
        /\ icon_in.text = "0%" => Filled = {}
        /\ icon_in.text = "100%" => Filled = Annulus

\* The quarter of the screen a pixel off the axes lies in, counted clockwise
\* from the top with rows numbered downward: upper right, lower right, lower
\* left, upper left.
ScreenQuadrant(dx, dy) ==
    CASE dx > 0 /\ dy < 0 -> 1
      [] dx > 0 /\ dy > 0 -> 2
      [] dx < 0 /\ dy > 0 -> 3
      [] dx < 0 /\ dy < 0 -> 4

\* C22: the fill starts at the column above the centre and runs clockwise on
\* screen: "25%" fills the upper right quadrant, "50%" the right half, "75%"
\* all but the upper left quadrant.
C22_ClockwiseFromTop ==
    (RingResult /\ icon_in.text \in {"25%", "50%", "75%"}) =>
        \A p \in Annulus :
            /\ (PixelDx(p) # 0 /\ PixelDy(p) # 0) =>
                  (IsFilled(p) <=>
                     ScreenQuadrant(PixelDx(p), PixelDy(p)) * 25 <= PercentOf(icon_in.text))
            /\ (PixelDx(p) = 0 /\ PixelDy(p) < 0) => IsFilled(p)

\* C23: every Icon returned is 64 by 64 with 64*64*4 bytes, each pixel as
\* alpha, red, green, blue; when the font does not load every byte is zero.
C23_IconEncoding ==
    icon_out # NoIcon =>
        /\ icon_out.width = 64
        /\ icon_out.height = 64
        /\ Len(icon_out.data) = 64 * 64 * 4
        /\ (icon_in.text_mode /\ font = "Err") =>
              \A i \in 1..Len(icon_out.data) : icon_out.data[i] = 0
        /\ (icon_in.text_mode /\ font = "Ok") =>
              \A p \in 1..(64 * 64) :
                  PixelBytes(p) \in {<<0, 0, 0, 0>>, <<255, 255, 255, 255>>}
        /\ ~icon_in.text_mode =>
              \A p \in 1..(64 * 64) :
                  IF IsAnnulus(p)
                  THEN PixelBytes(p) \in {<<255, 128, 128, 128>>, <<255, 0, 255, 0>>}
                  ELSE PixelBytes(p) = <<0, 0, 0, 0>>

\* A half-filled ring: opaque green and opaque grey pixels, alpha first.
C23_Witness ==
    /\ RingResult
    /\ icon_in.text = "50%"
    /\ Len(icon_out.data) = 16384
    /\ \E p, q \in Annulus :
         /\ PixelBytes(p) = <<255, 0, 255, 0>>
         /\ PixelBytes(q) = <<255, 128, 128, 128>>

\* C24: in glyph mode the text, x pixels from the left and as wide as its
\* advance widths sum to, has its middle within one pixel of the midline 32:
\* |x + w/2 - 32| <= 1 with w = TextUnits * 48 / 2384.
C24_GlyphCentred ==
    (GlyphResult /\ font = "Ok") =>
        LET off == 2 * 2384 * icon_out.x + 48 * TextUnits(icon_in.text) - 64 * 2384
        IN off <= 2 * 2384 /\ -off <= 2 * 2384

C26_ScopedLock == holder => RecvReady(chan, tx_alive)

\* The toolkit has confirmed window id and update has handled WindowOpened(id).
Confirmed(id) ==
    /\ id \notin {r.id : r \in requested}
    /\ [kind |-> "WindowOpened", id |-> id] \notin win_msgs

\* C27: an OpenWindow is answered with gain-focus only on a handle whose
\* creation the toolkit has confirmed; until then the state is Pending.
C27_PendingUntilConfirmed ==
    (LastIs("OpenWindow") /\ last.task.focus # {}) =>
        \A id \in last.task.focus : Confirmed(id)

\* Ascending order of the device identifiers of the model.
MacRank(mac) ==
    CASE mac = "AA:01" -> 1
      [] mac = "BB:02" -> 2
      [] mac = "CC:03" -> 3

\* C28: rows with the same display name are in ascending order of their
\* device identifier in every render.
C28_TieBreakById ==
    (view_out.content \notin {"none", "panic"}) =>
        \A i, j \in 1..(Len(view_out.rows) - 1) :
            (i < j /\ view_out.rows[i].label = view_out.rows[j].label) =>
                MacRank(view_out.rows[i].tab.id) < MacRank(view_out.rows[j].tab.id)

\* C29: a row is highlighted exactly when its Tab equals the selection the
\* render was made for, so at most one row is highlighted.
C29_HighlightByIdentity ==
    (view_out.content \notin {"none", "panic"}) =>
        /\ \A i \in 1..Len(view_out.rows) :
              view_out.rows[i].is_selected <=> view_out.rows[i].tab = view_out.selected_tab
        /\ Cardinality({i \in 1..Len(view_out.rows) : view_out.rows[i].is_selected}) <= 1

\* Two devices named Alpha, AA:01 selected: its row alone is highlighted.
C29_Witness ==
    /\ view_out.content = "information"
    /\ view_out.selected_tab = TabDevice("AA:01")
    /\ \E i, j \in 1..Len(view_out.rows) :
         /\ view_out.rows[i].tab = TabDevice("AA:01")
         /\ view_out.rows[j].tab = TabDevice("BB:02")
         /\ view_out.rows[i].label = view_out.rows[j].label
         /\ view_out.rows[i].is_selected
         /\ ~view_out.rows[j].is_selected

\* C30: selected_tab starts as Device("none") and only a step of update on
\* Message::SelectTab changes it.
C30_OnlySelectTab ==
    /\ selected_tab = TabNone
    /\ [][selected_tab' # selected_tab => last'.kind = "SelectTab"]_vars

\* The selected device disconnected and is still the selection.
C30_Witness ==
    /\ selected_tab = TabDevice("AA:01")
    /\ LastIs("DeviceDisconnected")
    /\ last.message.mac = "AA:01"

\* C31: connected_devices never holds the same identifier twice, whatever
\* events were handled, repeated DeviceConnected for one identifier included.
C31_NoDuplicateDevice ==
    \A i, j \in 1..Len(connected_devices) :
        connected_devices[i] = connected_devices[j] => i = j

\* DeviceConnected("AA:01") went through update twice; the list holds it once.
C31_Witness ==
    /\ Len(handled) = 2
    /\ \A i \in 1..2 : handled[i] = [type |-> "DeviceConnected", mac |-> "AA:01"]
    /\ connected_devices = <<"AA:01">>

\* C32: the stored window handle is never stale when a queue event uses it:
\* a step of update on UIMessage::OpenWindow focuses only a window that was
\* requested and that the toolkit has not reported closed, so once the window
\* is reported closed the next OpenWindow opens a new one.
C32_HandleNeverStale ==
    [][(last' # last /\ last'.kind = "UIMessage" /\ last'.message.type = "OpenWindow")
          => \A h \in last'.task.focus : h \in MainWindows]_vars

\* C33: selecting a listening mode leaves every field of MyTray as it was; it
\* sends at most the one ListeningMode command, and nothing at all when
\* command_tx is absent. The conversation-detection toggle, when it acts,
\* does change the tray.
C33_SelectChangesNoField ==
    /\ tray_out.op = "select" =>
          /\ tray = tray_out.before
          /\ Len(tray_out.emitted) <= 1
          /\ \A i \in 1..Len(tray_out.emitted) :
                tray_out.emitted[i].identifier = "ListeningMode"
          /\ tray_out.before.command_tx = None => tray_out.emitted = <<>>
    /\ (tray_out.op = "activate" /\ tray_out.emitted # <<>>) => tray # tray_out.before

\* A mode other than the stored one was selected and sent; the tray still
\* holds the old mode.
C33_Witness ==
    /\ tray_out.op = "select"
    /\ tray_out.before.listening_mode = Some(2)
    /\ tray_out.emitted = <<Command("ListeningMode", 3)>>
    /\ tray.listening_mode = Some(2)

====
